---------------------------- MODULE Spec2Model ----------------------------
(* A model of lib/new/tox.js: the Tox class, a node-ffi binding of        *)
(* libtoxcore.  One Tox object is followed from `new Tox(opts)`           *)
(* (_createToxOptions, createLibrary, _initNew) through its engine calls, *)
(* blocking on the JavaScript thread and non-blocking on the libuv thread *)
(* pool, and its setInterval iteration loop.                              *)
EXTENDS Integers, Naturals, Sequences, FiniteSets, TLC

VARIABLES
  calls,        \* engine calls issued and not yet finished (see EngineCall)
  interval,     \* this._interval
  timers,       \* the event loop's active setInterval timers
  engine,       \* "alive", or "dead" once a tox_kill has returned
  toxKillCount, \* how many times tox_kill has been entered
  killIssued,   \* how many kill()/killSync() calls have been made
  destroyed,    \* kill() or killSync() has been called on the object
  crashed,      \* the process died in the native library
  last,         \* what the caller observed from the latest operation
  opts,         \* the constructor's argument
  heap,         \* what the unwritten fields of a fresh ToxOptions hold
  toxopts,      \* the constructor's local toxOptions
  handle,       \* this._handle
  pcNew         \* the constructor's position

\* What the constructor leaves alone.
lifeFrame == <<calls, interval, timers, engine, toxKillCount, killIssued,
               destroyed, crashed>>
newVars == <<opts, heap, toxopts, handle, pcNew>>
vars == <<calls, interval, timers, engine, toxKillCount, killIssued,
          destroyed, crashed, last, opts, heap, toxopts, handle, pcNew>>

-----------------------------------------------------------------------------
(* Bounds of the model. *)

\* Non-blocking engine calls outstanding at once (queued, running, or
\* finished with the callback not yet run).
MaxCalls == 1
\* The engine reports status codes 0..MaxStatus.
MaxStatus == 1
\* kill()/killSync() calls made on the object.
MaxKills == 2
\* start() is tried with the numbers -1..MaxWait.
MaxWait == 1

-----------------------------------------------------------------------------
(* JavaScript values. *)

Undefined == [t |-> "undefined"]
NaN == [t |-> "NaN"]
Num(n) == [t |-> "number", v |-> n]
Bool(b) == [t |-> "boolean", b |-> b]
\* A string, as the sequence of its characters.
Str(chars) == [t |-> "string", s |-> chars]
Timeout(i) == [t |-> "Timeout", id |-> i]
\* A proxy object {type, address, port}.
ProxyObject(type, address, port) ==
  [t |-> "object", type |-> type, address |-> address, port |-> port]

\* !!v
Truthy(v) ==
  CASE v.t = "undefined" -> FALSE
    [] v.t = "NaN" -> FALSE
    [] v.t = "number" -> v.v # 0
    [] v.t = "boolean" -> v.b
    [] v.t = "string" -> v.s # <<>>
    [] OTHER -> TRUE

\* _.isString(v), _.isNumber(v), _.isObject(v)
isString(v) == v.t = "string"
isNumber(v) == v.t \in {"number", "NaN"}
isObject(v) == v.t \in {"object", "Timeout"}

\* isNaN(v)
isNaN(v) ==
  CASE v.t = "undefined" -> TRUE
    [] v.t = "NaN" -> TRUE
    [] v.t = "string" ->
         \E i \in 1..Len(v.s) :
           v.s[i] \notin {"0", "1", "2", "3", "4", "5", "6", "7", "8", "9"}
    [] OTHER -> FALSE

\* Errors, as the caller tells them apart.
NoError == [kind |-> "none", code |-> 0]
Err(k) == [kind |-> k, code |-> 0]
ErrCode(k, c) == [kind |-> k, code |-> c]

-----------------------------------------------------------------------------
(* Status codes (lib/new/consts.js, taken from tox.h). *)

TOX_ERR_NEW_OK == 0
TOX_ERR_BOOTSTRAP_OK == 0

Statuses == 0..MaxStatus

\* _ToxErrorType is 'uint8': errorPtr.deref() reads one byte, the low byte
\* of the status the engine wrote (little-endian, as lines 40-43 assume).
DerefUInt8(written) == written % 256

-----------------------------------------------------------------------------
(* Engine calls.  A blocking call runs on the JavaScript thread            *)
(* (thread = "main") and keeps it busy until it returns; fn.async(...)     *)
(* queues the call for the libuv thread pool (thread = "pool"), where it   *)
(* runs, finishes, and has its completion handler run later on the         *)
(* JavaScript thread.                                                      *)

CallIds == 1..(MaxCalls + 1)

EngineCall(id, fn, by, thread, st, cb) ==
  [id |-> id, fn |-> fn, by |-> by, thread |-> thread, st |-> st, cb |-> cb,
   mech |-> FALSE, res |-> TRUE, status |-> 0]

FreshId == CHOOSE i \in CallIds : /\ \A c \in calls : c.id # i
                                  /\ \A j \in CallIds :
                                       (\A c \in calls : c.id # j) => i <= j

Running == {c \in calls : c.st = "running"}
Outstanding == {c \in calls : c.thread = "pool"}

\* The JavaScript thread is inside a blocking native call.
MainBusy == \E c \in calls : c.thread = "main"

\* The caller's JavaScript runs: the constructor has returned the object,
\* the process is alive and its one thread is free.
CanRunJS == pcNew = "done" /\ ~crashed /\ ~MainBusy

\* The native library is used in a way it does not define: two calls on
\* one Tox at once, or a call on a Tox that tox_kill has freed.
UndefinedUse == Cardinality(Running) >= 2 \/ (Running # {} /\ engine = "dead")

\* What the caller sees of an operation or of a callback.  op: its name;
\* phase: "called" while the operation is inside a blocking engine call,
\* "returned" once it has returned or thrown; after: it was called after
\* kill()/killSync(); engine: it called into the engine; err: the error
\* thrown or passed to the callback; cb: whether the callback ran; mech,
\* res, status: what ffi and the engine reported; noop: start() found the
\* loop running, or stop() found it not running.
Observed(op, phase, after, eng, err, cb, mech, res, status) ==
  [op |-> op, phase |-> phase, after |-> after, engine |-> eng, err |-> err,
   cb |-> cb, mech |-> mech, res |-> res, status |-> status, noop |-> FALSE]

\* An operation that returns (or throws err) at once.
Plain(op, eng, err) ==
  Observed(op, "returned", destroyed, eng, err, "n/a", FALSE, TRUE, 0)

\* An operation enters a blocking engine call.
Entered(op) ==
  Observed(op, "called", destroyed, TRUE, NoError, "n/a", FALSE, TRUE, 0)

\* The operation that entered a blocking engine call returns or throws.
Left(err, res, status) ==
  [last EXCEPT !.phase = "returned", !.err = err, !.res = res,
               !.status = status]

\* A callback runs.
Called(op, eng, err, cb, mech, res, status) ==
  Observed(op, "returned", FALSE, eng, err, cb, mech, res, status)

-----------------------------------------------------------------------------
(* Tox.prototype.getHandle, getLibrary *)

getHandle == handle
getLibrary == "libtoxcore"

-----------------------------------------------------------------------------
(* Error mapping. *)

\* _getToxBootstrapError with its test the wrong way round.
getToxBootstrapError_Inverted(val) ==
  IF val = TOX_ERR_BOOTSTRAP_OK THEN ErrCode("tox_bootstrap", val) ELSE NoError

\* Tox.prototype._getToxBootstrapError
getToxBootstrapError(val) ==
  IF val # TOX_ERR_BOOTSTRAP_OK THEN ErrCode("tox_bootstrap", val) ELSE NoError

InconsistentResult == Err("returned false but no error set")

\* The completion handler without its test of res === false.
bootstrapCallbackError_NoFalseCheck(mechErr, res, eptr) ==
  LET terr == getToxBootstrapError(eptr)
  IN IF mechErr.kind = "none" /\ terr.kind # "none" THEN terr ELSE mechErr

\* The completion handler with the status error put before ffi's error.
bootstrapCallbackError_StatusFirst(mechErr, res, eptr) ==
  LET terr == getToxBootstrapError(eptr)
      err1 == IF terr.kind # "none" THEN terr ELSE mechErr
  IN IF err1.kind = "none" /\ res = FALSE THEN InconsistentResult ELSE err1

\* The completion handler bootstrap() gives to tox_bootstrap.async:
\* the error it passes to the callback.
bootstrapCallbackError(mechErr, res, eptr) ==
  LET terr == getToxBootstrapError(eptr)
      err1 == IF mechErr.kind = "none" /\ terr.kind # "none" THEN terr ELSE mechErr
  IN IF err1.kind = "none" /\ res = FALSE THEN InconsistentResult ELSE err1

\* What bootstrapSync throws after tox_bootstrap returned.
bootstrapSyncError(success, eptr) ==
  LET terr == getToxBootstrapError(eptr)
  IN IF terr.kind # "none" THEN terr
     ELSE IF success = FALSE THEN InconsistentResult
     ELSE NoError

-----------------------------------------------------------------------------
(* Characters and strings. *)

UpperCase == <<"A", "B", "C", "D", "E", "F", "G", "H", "I", "J", "K", "L", "M", "N", "O", "P", "Q", "R", "S", "T", "U", "V", "W", "X", "Y", "Z">>
LowerCase == <<"a", "b", "c", "d", "e", "f", "g", "h", "i", "j", "k", "l", "m", "n", "o", "p", "q", "r", "s", "t", "u", "v", "w", "x", "y", "z">>
Digits == <<"0", "1", "2", "3", "4", "5", "6", "7", "8", "9">>

ToLowerChar(c) ==
  IF \E i \in 1..Len(UpperCase) : UpperCase[i] = c
    THEN LowerCase[CHOOSE i \in 1..Len(UpperCase) : UpperCase[i] = c]
    ELSE c

\* s.toLowerCase()
ToLower(s) == [i \in 1..Len(s) |-> ToLowerChar(s[i])]

IsDigit(c) == \E i \in 1..10 : Digits[i] = c
DigitValue(c) == (CHOOSE i \in 1..10 : Digits[i] = c) - 1

RECURSIVE ParseDigits(_)
\* The number a non-empty string of digits writes.
ParseDigits(s) ==
  IF Len(s) = 0 THEN 0
  ELSE 10 * ParseDigits(SubSeq(s, 1, Len(s) - 1)) + DigitValue(s[Len(s)])

\* s.indexOf(sub, from): the first index >= from (1-based) where sub
\* starts, 0 when there is none.
IndexOf(s, sub, from) ==
  LET hits == {i \in from..(Len(s) - Len(sub) + 1) :
                 SubSeq(s, i, i + Len(sub) - 1) = sub}
  IN IF hits = {} THEN 0 ELSE CHOOSE i \in hits : \A j \in hits : i <= j

\* /^http$/i.test(s)
MatchesHttp(s) == ToLower(s) = <<"h", "t", "t", "p">>

\* /^socks5?$/i.test(s)
MatchesSocks5(s) ==
  \/ ToLower(s) = <<"s", "o", "c", "k", "s">>
  \/ ToLower(s) = <<"s", "o", "c", "k", "s", "5">>

-----------------------------------------------------------------------------
(* lib/new/util.js and lib/new/consts.js. *)

TOX_PROXY_TYPE_NONE == 0
TOX_PROXY_TYPE_HTTP == 1
TOX_PROXY_TYPE_SOCKS5 == 2

\* util.parseProxy(str): 'type://address:port' with type http, socks or
\* socks5 in any case gives {type, address, port}; anything else gives
\* undefined.
parseProxy(str) ==
  LET sep == IndexOf(str, <<":", "/", "/">>, 1)
      scheme == SubSeq(str, 1, sep - 1)
      rest == SubSeq(str, sep + 3, Len(str))
      colon == IndexOf(rest, <<":">>, 1)
      host == SubSeq(rest, 1, colon - 1)
      port == SubSeq(rest, colon + 1, Len(rest))
  IN IF /\ sep > 0
        /\ MatchesHttp(scheme) \/ MatchesSocks5(scheme)
        /\ colon > 1
        /\ Len(port) > 0
        /\ \A i \in 1..Len(port) : IsDigit(port[i])
       THEN ProxyObject(Str(ToLower(scheme)), Str(host), Num(ParseDigits(port)))
       ELSE Undefined

-----------------------------------------------------------------------------
(* The ToxOptions struct and Tox.prototype._createToxOptions. *)

\* 'proxy_address': RefArray('char', 256)
ProxyAddressLength == 256
NUL == "\\0"
\* A byte of a buffer that nothing has written yet.
STALE == "?"

\* The identifiers tox.js declares at its top level, and those of them
\* that hold a value other code here reads.  Reading any other bare
\* identifier throws a ReferenceError.
ModuleScope ==
  {"buffertools", "fs", "ref", "ffi", "path", "_", "RefArray", "RefStruct",
   "consts", "util", "size_t", "_Tox", "_ToxPtr", "ToxOptions",
   "_ToxOptionsPtr", "_UInt8Ptr", "_UInt16Ptr", "_UInt32Ptr", "_Int8Ptr",
   "_Int16Ptr", "_Int32Ptr", "_SizePtr", "_ToxErrorType", "_ToxErrorNewPtr",
   "_ToxErrorBootstrapPtr", "_ToxOptionsErrorNewPtr", "Tox"}

Declared(name) == name \in ModuleScope

\* new ToxOptions(): ref-struct allocates the struct with new Buffer(size)
\* and writes nothing to it.  mem is what the memory held: mem[1] and
\* mem[2] are the 16-bit words under start_port and end_port.
NewToxOptions(mem) ==
  [ipv6enabled |-> mem[1] % 256, udp_disabled |-> mem[2] % 256,
   proxy_type |-> mem[1] % 256,
   proxy_address |-> [i \in 1..ProxyAddressLength |-> STALE],
   proxy_port |-> mem[2], start_port |-> mem[1], end_port |-> mem[2]]

\* buf.write(string, offset, length): at most `length` bytes of the string,
\* from `offset` (0-based), and never past the end of the buffer.
BufferWrite(buf, string, offset, length) ==
  LET n == IF Len(string) < length THEN Len(string) ELSE length
      m == IF n < Len(buf) - offset THEN n ELSE Len(buf) - offset
  IN [i \in 1..Len(buf) |->
        IF i > offset /\ i <= offset + m THEN string[i - offset] ELSE buf[i]]

\* What a function did: the error it threw, if any, and the struct.
Returned(options) == [threw |-> NoError, options |-> options]
Threw(err, options) == [threw |-> err, options |-> options]

\* Tox.prototype._setProxyToToxOptions, lines 106-123: the body of
\* if(_.isObject(proxy)).  It reads the bare identifiers TOX_PROXY_NONE,
\* TOX_PROXY_TYPE_HTTP, TOX_PROXY_TYPE_SOCKS5 and TOX_PROXY_TYPE_NONE; were
\* they declared, they would hold the values of consts.
setProxyFromObject(proxy, options) ==
  LET named == IF ~isString(proxy.type) THEN "TOX_PROXY_NONE"
               ELSE IF MatchesHttp(proxy.type.s) THEN "TOX_PROXY_TYPE_HTTP"
               ELSE IF MatchesSocks5(proxy.type.s) THEN "TOX_PROXY_TYPE_SOCKS5"
               ELSE "TOX_PROXY_NONE"
  IN
  IF ~Declared("TOX_PROXY_NONE")            \* line 107
    THEN Threw(Err("ReferenceError"), options)
  ELSE IF ~Declared(named)                  \* lines 109, 110
    THEN Threw(Err("ReferenceError"),
               [options EXCEPT !.proxy_type = TOX_PROXY_TYPE_NONE])
  ELSE IF ~Declared("TOX_PROXY_TYPE_NONE")  \* line 113
    THEN Threw(Err("ReferenceError"),
               [options EXCEPT !.proxy_type = TOX_PROXY_TYPE_NONE])
  ELSE
    LET type == IF named = "TOX_PROXY_TYPE_HTTP" THEN TOX_PROXY_TYPE_HTTP
                ELSE IF named = "TOX_PROXY_TYPE_SOCKS5"
                  THEN TOX_PROXY_TYPE_SOCKS5
                ELSE TOX_PROXY_TYPE_NONE
        o1 == [options EXCEPT !.proxy_type = type]
        o2 == IF isString(proxy.address)
                THEN [o1 EXCEPT !.proxy_address =
                        BufferWrite(@, proxy.address.s, 0, Len(@) - 1)]
                ELSE o1
        o3 == IF isNumber(proxy.port) /\ proxy.port.t = "number"
                THEN [o2 EXCEPT !.proxy_port = proxy.port.v % 65536]
                ELSE o2
    IN Returned(IF type # TOX_PROXY_TYPE_NONE THEN o3 ELSE o1)

\* Tox.prototype._setProxyToToxOptions
setProxyToToxOptions(o, options) ==
  LET given == o.proxy
      proxy == IF isString(given) THEN parseProxy(given.s) ELSE given
  IN IF isObject(proxy) THEN setProxyFromObject(proxy, options)
     ELSE Returned(options)

\* Tox.prototype._createToxOptions
createToxOptions(o, mem) ==
  LET fresh == NewToxOptions(mem)
      ipv6 == IF o.ipv6 # Undefined THEN Truthy(o.ipv6) ELSE FALSE
      udp == IF o.udp # Undefined THEN Truthy(o.udp) ELSE TRUE
      set == [fresh EXCEPT
                !.proxy_address = [i \in 1..ProxyAddressLength |-> NUL],
                !.proxy_type = TOX_PROXY_TYPE_NONE,
                !.proxy_port = 0,
                !.ipv6enabled = IF ipv6 THEN 1 ELSE 0,
                !.udp_disabled = IF udp THEN 0 ELSE 1]
  IN setProxyToToxOptions(o, set)

-----------------------------------------------------------------------------
(* new Tox(opts) *)

\* An options object {ipv6, udp, proxy}.
Options(ipv6, udp, proxy) ==
  [t |-> "object", ipv6 |-> ipv6, udp |-> udp, proxy |-> proxy]

\* {}
NoOptions == Options(Undefined, Undefined, Undefined)

\* The constructor is over: its argument and locals are gone.
ConstructorLeft ==
  /\ opts' = Undefined
  /\ heap' = <<0, 0>>
  /\ toxopts' = Undefined

\* Tox, up to the return of this._createToxOptions(opts).
newCreateToxOptions ==
  /\ pcNew = "new"
  /\ LET r == createToxOptions(IF ~Truthy(opts) THEN NoOptions ELSE opts,
                                heap)
     IN IF r.threw = NoError
          THEN /\ toxopts' = r.options
               /\ pcNew' = "options"
               /\ UNCHANGED <<opts, heap, last>>
          ELSE /\ pcNew' = "threw"
               /\ last' = Observed("new", "returned", FALSE, FALSE, r.threw,
                                   "n/a", FALSE, TRUE, 0)
               /\ ConstructorLeft
  /\ UNCHANGED <<handle>>
  /\ UNCHANGED lifeFrame

\* Tox.prototype.createLibrary; the library is taken to load.
createLibrary ==
  /\ pcNew = "options"
  /\ pcNew' = "library"
  /\ UNCHANGED <<opts, heap, toxopts, handle, last>>
  /\ UNCHANGED lifeFrame

\* Tox.prototype._checkToxNewError: the error it throws, if any.
checkToxNewError(val) ==
  IF val # TOX_ERR_NEW_OK THEN ErrCode("tox_new", val) ELSE NoError

\* tox_new: a Tox and TOX_ERR_NEW_OK, or NULL and another status.
ToxNewResults ==
  {<<IF e = TOX_ERR_NEW_OK THEN "tox" ELSE "NULL", e>> : e \in Statuses}

\* Tox.prototype._initNew, and the constructor's return.
initNew ==
  /\ pcNew = "library"
  /\ \E r \in ToxNewResults :
       LET err == checkToxNewError(DerefUInt8(r[2]))
       IN /\ handle' = r[1]
          /\ pcNew' = IF err = NoError THEN "done" ELSE "threw"
          /\ last' = Observed("new", "returned", FALSE, TRUE, err, "n/a",
                              FALSE, TRUE, r[2])
  /\ ConstructorLeft
  /\ UNCHANGED lifeFrame

-----------------------------------------------------------------------------
(* The iteration loop: Tox.prototype.isStarted, start, stop. *)

\* Tox.prototype.isStarted
isStarted == Truthy(interval)

DefaultWait == 40

\* start(): the period handed to setInterval.
\* The test of start with zero let through.
startWait_ZeroPasses(wait) ==
  IF isNaN(wait) \/ wait.v < 0 THEN Num(DefaultWait) ELSE wait

startWait(wait) ==
  IF isNaN(wait) \/ wait.v <= 0 THEN Num(DefaultWait) ELSE wait

FreshTimerId ==
  IF timers = {} THEN 1
  ELSE 1 + (CHOOSE m \in {t.id : t \in timers} : \A t \in timers : t.id <= m)

\* setInterval(fn, wait): a new recurring timer, and the object returned.
setInterval(wait) == [id |-> FreshTimerId, wait |-> wait.v]

\* clearInterval(obj)
clearInterval(obj) == {t \in timers : t.id # obj.id}

\* start(), start(NaN), start('x'), start(-1), start(0), start(1), ...
Waits == {Undefined, NaN, Str(<<"x">>)} \cup {Num(n) : n \in -1..MaxWait}

\* start without its test of isStarted().
start_NoGuard(wait) ==
  /\ CanRunJS
  /\ LET t == setInterval(startWait(wait))
     IN /\ timers' = timers \cup {t}
        /\ interval' = Timeout(t.id)
  /\ last' = [Plain("start", FALSE, NoError) EXCEPT !.noop = isStarted]
  /\ UNCHANGED <<calls, engine, toxKillCount, killIssued, destroyed, crashed>>
  /\ UNCHANGED newVars

\* Tox.prototype.start
start(wait) ==
  /\ CanRunJS
  /\ IF ~isStarted
       THEN LET t == setInterval(startWait(wait))
            IN /\ timers' = timers \cup {t}
               /\ interval' = Timeout(t.id)
       ELSE UNCHANGED <<timers, interval>>
  /\ last' = [Plain("start", FALSE, NoError) EXCEPT !.noop = isStarted]
  /\ UNCHANGED <<calls, engine, toxKillCount, killIssued, destroyed, crashed>>
  /\ UNCHANGED newVars

\* stop without its clearInterval.
stop_NoClear ==
  /\ CanRunJS
  /\ IF Truthy(interval)
       THEN /\ interval' = Undefined
            /\ UNCHANGED timers
       ELSE UNCHANGED <<timers, interval>>
  /\ last' = [Plain("stop", FALSE, NoError) EXCEPT !.noop = ~Truthy(interval)]
  /\ UNCHANGED <<calls, engine, toxKillCount, killIssued, destroyed, crashed>>
  /\ UNCHANGED newVars

\* Tox.prototype.stop
stop ==
  /\ CanRunJS
  /\ IF Truthy(interval)
       THEN /\ timers' = clearInterval(interval)
            /\ interval' = Undefined
       ELSE UNCHANGED <<timers, interval>>
  /\ last' = [Plain("stop", FALSE, NoError) EXCEPT !.noop = ~Truthy(interval)]
  /\ UNCHANGED <<calls, engine, toxKillCount, killIssued, destroyed, crashed>>
  /\ UNCHANGED newVars

-----------------------------------------------------------------------------
(* Blocking engine calls. *)

\* A blocking ffi call enters the native function on the JavaScript thread.
CallSync(fn, by) ==
  calls' = calls \cup {EngineCall(FreshId, fn, by, "main", "running", FALSE)}

\* The blocking call made by `by` returns.
ReturnsFrom(by) == {c \in calls : c.thread = "main" /\ c.by = by}

\* Tox.prototype.bootstrapSync, up to the call of tox_bootstrap.  ffi throws
\* a TypeError, without calling, when an argument does not convert.
bootstrapSync(argsOk) ==
  /\ CanRunJS
  /\ IF argsOk
       THEN /\ CallSync("tox_bootstrap", "bootstrapSync")
            /\ last' = Entered("bootstrapSync")
       ELSE /\ last' = Plain("bootstrapSync", FALSE, Err("TypeError"))
            /\ UNCHANGED calls
  /\ UNCHANGED <<interval, timers, engine, toxKillCount, killIssued,
                 destroyed, crashed>>
  /\ UNCHANGED newVars

\* Tox.prototype.bootstrapSync, from the return of tox_bootstrap.
bootstrapSyncReturn(success, status) ==
  /\ ~crashed
  /\ \E c \in ReturnsFrom("bootstrapSync") :
       /\ calls' = calls \ {c}
       /\ last' = Left(bootstrapSyncError(success, DerefUInt8(status)),
                       success, status)
  /\ UNCHANGED <<interval, timers, engine, toxKillCount, killIssued,
                 destroyed, crashed>>
  /\ UNCHANGED newVars

\* Tox.prototype.iterationIntervalSync
iterationIntervalSync ==
  /\ CanRunJS
  /\ CallSync("tox_iteration_interval", "iterationIntervalSync")
  /\ last' = Entered("iterationIntervalSync")
  /\ UNCHANGED <<interval, timers, engine, toxKillCount, killIssued,
                 destroyed, crashed>>
  /\ UNCHANGED newVars

iterationIntervalSyncReturn ==
  /\ ~crashed
  /\ \E c \in ReturnsFrom("iterationIntervalSync") :
       /\ calls' = calls \ {c}
       /\ last' = Left(NoError, TRUE, 0)
  /\ UNCHANGED <<interval, timers, engine, toxKillCount, killIssued,
                 destroyed, crashed>>
  /\ UNCHANGED newVars

\* iterateSync calling tox_iterate.async instead.
iterateSyncCall_Async(by) ==
  calls' = calls \cup {EngineCall(FreshId, "tox_iterate", by, "pool", "queued", FALSE)}

\* How iterateSync calls tox_iterate: blocking, on the JavaScript thread.
iterateSyncCall(by) == CallSync("tox_iterate", by)

\* Tox.prototype.iterateSync, called by the user.
iterateSync ==
  /\ CanRunJS
  /\ iterateSyncCall("iterateSync")
  /\ last' = Entered("iterateSync")
  /\ UNCHANGED <<interval, timers, engine, toxKillCount, killIssued,
                 destroyed, crashed>>
  /\ UNCHANGED newVars

iterateSyncReturn ==
  /\ ~crashed
  /\ \E c \in ReturnsFrom("iterateSync") :
       /\ calls' = calls \ {c}
       /\ last' = Left(NoError, TRUE, 0)
  /\ UNCHANGED <<interval, timers, engine, toxKillCount, killIssued,
                 destroyed, crashed>>
  /\ UNCHANGED newVars

\* A period that also asks the engine for its iteration interval.
tick_AndInterval ==
  /\ CanRunJS
  /\ timers # {}
  /\ calls' = calls \cup
       {EngineCall(FreshId, "tox_iterate", "driver", "main", "running", FALSE),
        EngineCall(FreshId + 1, "tox_iteration_interval", "driver", "main",
                   "running", FALSE)}
  /\ UNCHANGED <<interval, timers, engine, toxKillCount, killIssued,
                 destroyed, crashed, last>>
  /\ UNCHANGED newVars

\* A period of the timer set by start() elapses: the event loop runs
\* Tox.prototype.iterateSync.bind(this).
tick ==
  /\ CanRunJS
  /\ timers # {}
  /\ iterateSyncCall("driver")
  /\ UNCHANGED <<interval, timers, engine, toxKillCount, killIssued,
                 destroyed, crashed, last>>
  /\ UNCHANGED newVars

tickReturn ==
  /\ ~crashed
  /\ \E c \in ReturnsFrom("driver") : calls' = calls \ {c}
  /\ UNCHANGED <<interval, timers, engine, toxKillCount, killIssued,
                 destroyed, crashed, last>>
  /\ UNCHANGED newVars

\* Tox.prototype.killSync
killSync ==
  /\ CanRunJS
  /\ killIssued < MaxKills
  /\ CallSync("tox_kill", "killSync")
  /\ last' = Entered("killSync")
  /\ toxKillCount' = toxKillCount + 1
  /\ killIssued' = killIssued + 1
  /\ destroyed' = TRUE
  /\ UNCHANGED <<interval, timers, engine, crashed>>
  /\ UNCHANGED newVars

killSyncReturn ==
  /\ ~crashed
  /\ \E c \in ReturnsFrom("killSync") :
       /\ calls' = calls \ {c}
       /\ last' = Left(NoError, TRUE, 0)
  /\ engine' = "dead"
  /\ UNCHANGED <<interval, timers, toxKillCount, killIssued, destroyed,
                 crashed>>
  /\ UNCHANGED newVars

-----------------------------------------------------------------------------
(* Non-blocking engine calls: fn.async(args..., callback). *)

\* fn.async queues the call for the thread pool and returns.
CallAsync(fn, by, cb) ==
  calls' = calls \cup
    {EngineCall(FreshId, fn, by, "pool", "queued", cb)}

\* fn.async with an argument that does not convert: ffi makes no call and
\* schedules callback(e) with process.nextTick.
CallAsyncRejected(fn, by, cb) ==
  calls' = calls \cup
    {[EngineCall(FreshId, fn, by, "pool", "done", cb) EXCEPT !.mech = TRUE]}

\* Tox.prototype.bootstrap, up to its return.  cb: a callback was given.
bootstrap(argsOk, cb) ==
  /\ CanRunJS
  /\ Cardinality(Outstanding) < MaxCalls
  /\ IF argsOk
       THEN CallAsync("tox_bootstrap", "bootstrap", cb)
       ELSE CallAsyncRejected("tox_bootstrap", "bootstrap", cb)
  /\ last' = Plain("bootstrap", argsOk, NoError)
  /\ UNCHANGED <<interval, timers, engine, toxKillCount, killIssued,
                 destroyed, crashed>>
  /\ UNCHANGED newVars

\* The function bootstrap() passes to tox_bootstrap.async, run by the event
\* loop once the call is over.  When ffi reported an error no call was
\* made: eptr holds what ref.alloc left there, res is undefined.
bootstrapCallback(eptr) ==
  /\ CanRunJS
  /\ \E c \in calls :
       /\ c.by = "bootstrap" /\ c.st = "done"
       /\ eptr = IF c.mech THEN eptr ELSE DerefUInt8(c.status)
       /\ calls' = calls \ {c}
       /\ LET mechErr == IF c.mech THEN Err("ffi") ELSE NoError
              res == IF c.mech THEN TRUE ELSE c.res
              err == bootstrapCallbackError(mechErr, res, eptr)
          IN last' = Called("bootstrap.callback", ~c.mech,
                            IF c.cb THEN err ELSE NoError,
                            IF c.cb THEN "called" ELSE "absent",
                            c.mech, c.res, c.status)
  /\ UNCHANGED <<interval, timers, engine, toxKillCount, killIssued,
                 destroyed, crashed>>
  /\ UNCHANGED newVars

\* Tox.prototype.iterationInterval.  ffi throws a TypeError, without
\* calling, when the last argument of fn.async is not a function.
iterationInterval(cb) ==
  /\ CanRunJS
  /\ Cardinality(Outstanding) < MaxCalls
  /\ IF cb
       THEN CallAsync("tox_iteration_interval", "iterationInterval", cb)
       ELSE UNCHANGED calls
  /\ last' = Plain("iterationInterval", cb,
                   IF cb THEN NoError ELSE Err("TypeError"))
  /\ UNCHANGED <<interval, timers, engine, toxKillCount, killIssued,
                 destroyed, crashed>>
  /\ UNCHANGED newVars

\* Tox.prototype.kill
kill(cb) ==
  /\ CanRunJS
  /\ Cardinality(Outstanding) < MaxCalls
  /\ killIssued < MaxKills
  /\ IF cb
       THEN /\ CallAsync("tox_kill", "kill", cb)
            /\ killIssued' = killIssued + 1
            /\ destroyed' = TRUE
       ELSE UNCHANGED <<calls, killIssued, destroyed>>
  /\ last' = Plain("kill", cb, IF cb THEN NoError ELSE Err("TypeError"))
  /\ UNCHANGED <<interval, timers, engine, toxKillCount, crashed>>
  /\ UNCHANGED newVars

\* The user's callback of iterationInterval or kill, which ffi calls with
\* (null, value) once the call is over.
userCallback ==
  /\ CanRunJS
  /\ \E c \in calls :
       /\ c.by \in {"iterationInterval", "kill"} /\ c.st = "done"
       /\ calls' = calls \ {c}
       /\ last' = Called(c.by, TRUE, NoError, "called", FALSE, TRUE, 0)
  /\ UNCHANGED <<interval, timers, engine, toxKillCount, killIssued,
                 destroyed, crashed>>
  /\ UNCHANGED newVars

\* Tox.prototype.iterate: it calls the blocking tox_iterate with two
\* arguments where the signature has one, and ffi throws a TypeError
\* without calling.
iterate ==
  /\ CanRunJS
  /\ last' = Plain("iterate", FALSE, Err("TypeError"))
  /\ UNCHANGED <<calls, interval, timers, engine, toxKillCount, killIssued,
                 destroyed, crashed>>
  /\ UNCHANGED newVars

\* The methods Tox.prototype has.
Methods ==
  {"_createToxOptions", "_setProxyToToxOptions", "_initNew",
   "_checkToxNewError", "_getToxBootstrapError", "getHandle", "getLibrary",
   "bootstrap", "bootstrapSync", "createLibrary", "isStarted",
   "iterationInterval", "iterationIntervalSync", "iterate", "iterateSync",
   "kill", "killSync", "start", "stop"}

\* tox.getSaveData(): createLibrary declares tox_get_savedata_size and
\* tox_get_savedata, and no method of Tox calls them; the property is
\* undefined and calling it throws a TypeError.
getSaveData ==
  /\ CanRunJS
  /\ "getSaveData" \notin Methods
  /\ last' = Plain("getSaveData", FALSE, Err("TypeError"))
  /\ UNCHANGED <<calls, interval, timers, engine, toxKillCount, killIssued,
                 destroyed, crashed>>
  /\ UNCHANGED newVars

-----------------------------------------------------------------------------
(* The thread pool and the native library. *)

\* A pool thread takes a queued call and enters the native function.
poolStart ==
  /\ ~crashed
  /\ \E c \in calls :
       /\ c.thread = "pool" /\ c.st = "queued"
       /\ calls' = (calls \ {c}) \cup {[c EXCEPT !.st = "running"]}
       /\ toxKillCount' = IF c.fn = "tox_kill" THEN toxKillCount + 1
                          ELSE toxKillCount
  /\ UNCHANGED <<interval, timers, engine, killIssued, destroyed, crashed,
                 last>>
  /\ UNCHANGED newVars

\* What a native function can report.
Reports(fn) ==
  IF fn = "tox_bootstrap" THEN BOOLEAN \X Statuses ELSE {<<TRUE, 0>>}

\* The native function returns on its pool thread.
poolEnd ==
  /\ ~crashed
  /\ \E c \in calls :
       /\ c.thread = "pool" /\ c.st = "running"
       /\ \E r \in Reports(c.fn) :
            calls' = (calls \ {c}) \cup
              {[c EXCEPT !.st = "done", !.res = r[1], !.status = r[2]]}
       /\ engine' = IF c.fn = "tox_kill" THEN "dead" ELSE engine
  /\ UNCHANGED <<interval, timers, toxKillCount, killIssued, destroyed,
                 crashed, last>>
  /\ UNCHANGED newVars

\* The native library is used outside what it defines and the process dies.
crash ==
  /\ ~crashed
  /\ UndefinedUse
  /\ crashed' = TRUE
  /\ calls' = {}
  /\ timers' = {}
  /\ interval' = Undefined
  /\ last' = Observed("crashed", "returned", FALSE, FALSE, NoError, "n/a",
                      FALSE, TRUE, 0)
  /\ UNCHANGED <<engine, toxKillCount, killIssued, destroyed>>
  /\ UNCHANGED newVars

-----------------------------------------------------------------------------
(* One Tox, from `new Tox(opts)` on. *)

\* What the memory of a fresh Buffer is tried with.
HeapWords == {0, 65535}

S_http == <<"h", "t", "t", "p">>
S_HTTP == <<"H", "T", "T", "P">>
S_socks == <<"s", "o", "c", "k", "s">>
S_Socks5 == <<"S", "o", "c", "k", "s", "5">>
S_ftp == <<"f", "t", "p">>
S_host == <<"1", "0", ".", "0", ".", "0", ".", "1">>
S_x == <<"x">>
S_sep == <<":", "/", "/">>
S_9050 == <<"9", "0", "5", "0">>

\* An address longer than the proxy_address field.
LongAddressLength == 300

S_long == [i \in 1..LongAddressLength |-> "a"]

\* 'socks5://10.0.0.1:9050', 'HTTP://10.0.0.1:9050', 'socks://x:1',
\* 'ftp://x:1', 'http://x' (no port), 'x' (no scheme).
ProxyStrings ==
  {Str(<<"s", "o", "c", "k", "s", "5">> \o S_sep \o S_host \o <<":">> \o S_9050),
   Str(S_HTTP \o S_sep \o S_host \o <<":">> \o S_9050),
   Str(S_socks \o S_sep \o S_x \o <<":", "1">>),
   Str(S_ftp \o S_sep \o S_x \o <<":", "1">>),
   Str(S_http \o S_sep \o S_x),
   Str(S_x)}

\* {type: 'http', ...}, {type: 'Socks5', ...}, {type: 'socks', ...},
\* {type: 'ftp', ...}, {address, port} without a type, {type: 1, ...},
\* {type: 'http', address: 'aaa...a', port: 1}.
ProxyObjects ==
  {ProxyObject(Str(S_http), Str(S_host), Num(9050)),
   ProxyObject(Str(S_http), Str(S_long), Num(1)),
   ProxyObject(Str(S_Socks5), Str(S_host), Num(9050)),
   ProxyObject(Str(S_socks), Str(S_x), Num(1)),
   ProxyObject(Str(S_ftp), Str(S_x), Num(1)),
   ProxyObject(Undefined, Str(S_x), Num(1)),
   ProxyObject(Num(1), Str(S_x), Num(1))}

Flags == {Undefined, Bool(TRUE), Bool(FALSE), Num(0)}

\* The arguments `new Tox` is tried with.
OptionsTried ==
  {Undefined} \cup
  {Options(i, u, p) : i \in Flags, u \in Flags,
                      p \in {Undefined} \cup ProxyStrings \cup ProxyObjects}

Init ==
  /\ calls = {}
  /\ interval = Undefined
  /\ timers = {}
  /\ engine = "alive"
  /\ toxKillCount = 0
  /\ killIssued = 0
  /\ destroyed = FALSE
  /\ crashed = FALSE
  /\ last = Observed("none", "returned", FALSE, FALSE, NoError, "n/a",
                     FALSE, TRUE, 0)
  /\ opts \in OptionsTried
  /\ heap \in HeapWords \X HeapWords
  /\ toxopts = Undefined
  /\ handle = "unset"
  /\ pcNew = "new"

Next ==
  \/ newCreateToxOptions
  \/ createLibrary
  \/ initNew
  \/ \E w \in Waits : start(w)
  \/ stop
  \/ tick
  \/ tickReturn
  \/ \E a \in BOOLEAN : bootstrapSync(a)
  \/ \E s \in BOOLEAN, e \in Statuses : bootstrapSyncReturn(s, e)
  \/ \E a \in BOOLEAN, cb \in BOOLEAN : bootstrap(a, cb)
  \/ \E e \in Statuses : bootstrapCallback(e)
  \/ iterationIntervalSync
  \/ iterationIntervalSyncReturn
  \/ \E cb \in BOOLEAN : iterationInterval(cb)
  \/ iterateSync
  \/ iterateSyncReturn
  \/ iterate
  \/ getSaveData
  \/ \E cb \in BOOLEAN : kill(cb)
  \/ killSync
  \/ killSyncReturn
  \/ userCallback
  \/ poolStart
  \/ poolEnd
  \/ crash

Spec == Init /\ [][Next]_vars

-----------------------------------------------------------------------------
(* Use after kill, and calls in flight. *)

\* C1: once kill or killSync has been called, every later operation on the
\* object fails with UseAfterCloseError without calling into the engine,
\* and tox_kill is entered at most once.
C1_UseAfterClose ==
  /\ last.after => (last.err.kind = "UseAfterCloseError" /\ ~last.engine)
  /\ toxKillCount <= 1

\* C2: at most one call into the engine is in flight at any time, blocking
\* or non-blocking.
C2_OneCallInFlight == Cardinality(Running) <= 1

-----------------------------------------------------------------------------
(* Bootstrap errors. *)

\* The bootstrap contract: true and OK succeeds, false and OK is the
\* inconsistent result, a status other than OK is the bootstrap error with
\* that code whatever the boolean.
BootstrapContract(res, status) ==
  IF status # TOX_ERR_BOOTSTRAP_OK THEN ErrCode("tox_bootstrap", status)
  ELSE IF res THEN NoError
  ELSE InconsistentResult

\* bootstrapSync has returned from tox_bootstrap, or the callback given to
\* bootstrap has been called after tox_bootstrap ran.
BootstrapReported ==
  /\ last.op \in {"bootstrapSync", "bootstrap.callback"}
  /\ last.phase = "returned"
  /\ last.engine
  /\ last.cb # "absent"

\* C3: whatever (boolean, status) tox_bootstrap reports, bootstrapSync
\* throws and bootstrap passes to its callback the error of the bootstrap
\* contract, so the two agree on every report.
C3_SameMapping ==
  BootstrapReported => last.err = BootstrapContract(last.res, last.status)

\* tox_bootstrap returned false with status OK on the non-blocking path and
\* the callback got the inconsistent-result error.
C3_Witness ==
  /\ last.op = "bootstrap.callback" /\ last.cb = "called" /\ last.engine
  /\ last.res = FALSE /\ last.status = TOX_ERR_BOOTSTRAP_OK
  /\ last.err = InconsistentResult

\* tox_new or tox_bootstrap has reported, and the operation is over.
StatusReported ==
  /\ last.op \in {"new", "bootstrapSync", "bootstrap.callback"}
  /\ last.phase = "returned"
  /\ last.engine

\* C4 as stated: a status other than OK reported by tox_new or
\* tox_bootstrap always reaches the caller as a thrown error or as an
\* error passed to a callback.
C4_NeverSwallowed ==
  (StatusReported /\ last.status # 0) => last.err.kind # "none"

\* C4 as amended: a status other than OK is thrown by the constructor and
\* by bootstrapSync, and is passed by bootstrap to its callback when a
\* callback was given; without a callback bootstrap drops it.
C4_SurfacedWhereAsked ==
  (StatusReported /\ last.status # 0) =>
    IF last.cb = "absent" THEN last.err = NoError
    ELSE /\ last.err.kind = (IF last.op = "new" THEN "tox_new"
                             ELSE "tox_bootstrap")
         /\ last.err.code = last.status

\* tox_bootstrap reported a status other than OK on the non-blocking path
\* and the callback got the bootstrap error.
C4_Witness ==
  /\ last.op = "bootstrap.callback" /\ last.cb = "called" /\ last.engine
  /\ last.status # TOX_ERR_BOOTSTRAP_OK
  /\ last.err = ErrCode("tox_bootstrap", last.status)

-----------------------------------------------------------------------------
(* The iteration loop. *)

\* Engine calls made by the timer of start() and not yet returned.
DriverCalls == {c \in calls : c.by = "driver"}

\* C5: isStarted is true after start and false after stop; start on a
\* running loop and stop on a stopped one change nothing; there is never
\* more than one timer.
C5_StartStop ==
  /\ [](/\ Cardinality(timers) <= 1
        /\ isStarted <=> timers # {}
        /\ last.op = "start" => isStarted
        /\ last.op = "stop" => ~isStarted)
  /\ [][/\ \A w \in Waits :
             (start(w) /\ isStarted) => UNCHANGED <<timers, interval>>
        /\ (stop /\ ~isStarted) => UNCHANGED <<timers, interval>>]_vars

\* start was called on a running loop, which still has its one timer.
C5_Witness ==
  /\ last.op = "start" /\ last.noop
  /\ isStarted /\ Cardinality(timers) = 1

\* C6: stop cancels the timer at once and leaves engine calls in flight
\* alone; the timer calls iterateSync only while the loop is started, and
\* only start starts it.
C6_StopBeforeNextTick ==
  [][/\ stop => (timers' = {} /\ ~isStarted' /\ UNCHANGED calls)
     /\ tick => isStarted
     /\ (~isStarted /\ isStarted') => \E w \in Waits : start(w)]_vars

\* stop was called on a running loop: no timer is left.
C6_Witness ==
  /\ last.op = "stop" /\ ~last.noop
  /\ timers = {} /\ ~isStarted

\* C7: two tox_iterate calls of the timer are never in flight at once.
C7_TicksNeverOverlap == Cardinality(DriverCalls) <= 1

\* The timer's tox_iterate call has not returned and the timer is still
\* set: its next period cannot run iterateSync yet.
C7_Witness ==
  /\ \E c \in DriverCalls : c.st = "running"
  /\ timers # {}
  /\ ~ENABLED tick

-----------------------------------------------------------------------------
(* The constructor. *)

AllNul == [i \in 1..ProxyAddressLength |-> NUL]

\* C8: new Tox(opts) returns a usable Tox exactly when tox_new reports OK,
\* and otherwise throws the creation error with the status; nothing else.
C8_BuildThenCreate ==
  (last.op = "new" /\ pcNew \in {"done", "threw"}) =>
    \/ /\ pcNew = "done" /\ handle = "tox"
       /\ last.status = TOX_ERR_NEW_OK /\ last.err = NoError
    \/ /\ pcNew = "threw"
       /\ last.status # TOX_ERR_NEW_OK
       /\ last.err = ErrCode("tox_new", last.status)

\* The proxy option as the code first sees it: a string is parsed.
ProxyGiven(o) ==
  IF ~Truthy(o) THEN Undefined
  ELSE IF isString(o.proxy) THEN parseProxy(o.proxy.s)
  ELSE o.proxy

\* The proxy names, in any case, http, socks or socks5.
RecognizedType(proxy) ==
  /\ isObject(proxy)
  /\ isString(proxy.type)
  /\ ToLower(proxy.type.s) \in {S_http, S_socks, S_socks \o <<"5">>}

\* A proxy was given and is not usable: a string that does not parse, or
\* an object whose type is missing or not recognized.
UnusableProxy(o) ==
  /\ Truthy(o)
  /\ o.proxy # Undefined
  /\ ~RecognizedType(ProxyGiven(o))

\* C9: with an unusable proxy _createToxOptions does not throw and builds
\* proxy type NONE, an all-zero address and port 0.
C9_UnusableProxyIsNoProxy ==
  [][(newCreateToxOptions /\ UnusableProxy(opts)) =>
       /\ pcNew' = "options"
       /\ toxopts'.proxy_type = TOX_PROXY_TYPE_NONE
       /\ toxopts'.proxy_address = AllNul
       /\ toxopts'.proxy_port = 0]_vars

\* C10: with a recognized proxy _createToxOptions builds type HTTP or
\* SOCKS5, the given address and port, and the flags as requested.
C10_RecognizedProxyIsSet ==
  [][(newCreateToxOptions /\ Truthy(opts) /\ RecognizedType(ProxyGiven(opts))) =>
       LET proxy == ProxyGiven(opts)
       IN /\ pcNew' = "options"
          /\ toxopts'.proxy_type =
               (IF ToLower(proxy.type.s) = S_http THEN TOX_PROXY_TYPE_HTTP
                ELSE TOX_PROXY_TYPE_SOCKS5)
          /\ SubSeq(toxopts'.proxy_address, 1, Len(proxy.address.s))
               = proxy.address.s
          /\ toxopts'.proxy_port = proxy.port.v
          /\ toxopts'.ipv6enabled = (IF Truthy(opts.ipv6) THEN 1 ELSE 0)
          /\ toxopts'.udp_disabled =
               (IF opts.udp = Undefined \/ Truthy(opts.udp) THEN 0 ELSE 1)]_vars


\* The bytes of an address that fit the field before its last byte.
Fits(address) ==
  IF Len(address) < ProxyAddressLength - 1 THEN Len(address)
  ELSE ProxyAddressLength - 1

\* C11: for a recognized proxy with an address of any length, the built
\* record holds the first 255 bytes of the address at most, from offset 0,
\* zeros after them, and the field is still 256 bytes with a last byte 0.
C11_AddressFitsField ==
  [][(/\ newCreateToxOptions
      /\ Truthy(opts)
      /\ RecognizedType(ProxyGiven(opts))
      /\ isString(ProxyGiven(opts).address)) =>
       LET address == ProxyGiven(opts).address.s
           n == Fits(address)
       IN /\ pcNew' = "options"
          /\ Len(toxopts'.proxy_address) = ProxyAddressLength
          /\ SubSeq(toxopts'.proxy_address, 1, n) = SubSeq(address, 1, n)
          /\ \A i \in (n + 1)..ProxyAddressLength :
                toxopts'.proxy_address[i] = NUL]_vars

\* No ipv6, udp or proxy is given: `new Tox()` or `new Tox({})`.
NothingGiven(o) == ~Truthy(o) \/ o = NoOptions

\* C12: with nothing given the built record is all defaults: ipv6enabled 0,
\* udp_disabled 0, proxy type NONE, zeroed address, port 0, start_port and
\* end_port 0; with udp given, udp_disabled is the inverse of the udp flag
\* and ipv6enabled is the ipv6 flag.
C12_Defaults ==
  [][newCreateToxOptions =>
       /\ NothingGiven(opts) =>
            /\ pcNew' = "options"
            /\ toxopts' = [ipv6enabled |-> 0, udp_disabled |-> 0,
                           proxy_type |-> TOX_PROXY_TYPE_NONE,
                           proxy_address |-> AllNul, proxy_port |-> 0,
                           start_port |-> 0, end_port |-> 0]
       /\ (Truthy(opts) /\ opts.udp # Undefined) =>
            /\ pcNew' = "options"
            /\ toxopts'.udp_disabled = (IF Truthy(opts.udp) THEN 0 ELSE 1)
            /\ toxopts'.ipv6enabled = (IF Truthy(opts.ipv6) THEN 1 ELSE 0)]_vars

\* What C12 says without the port range and where no proxy object is given:
\* the flags and the proxy defaults are as stated.
C12_FlagsAndProxyDefaults ==
  [][(newCreateToxOptions /\ ~isObject(ProxyGiven(opts))) =>
       /\ pcNew' = "options"
       /\ toxopts'.proxy_type = TOX_PROXY_TYPE_NONE
       /\ toxopts'.proxy_address = AllNul
       /\ toxopts'.proxy_port = 0
       /\ toxopts'.udp_disabled =
            (IF ~Truthy(opts) \/ opts.udp = Undefined \/ Truthy(opts.udp)
             THEN 0 ELSE 1)
       /\ toxopts'.ipv6enabled =
            (IF Truthy(opts) /\ Truthy(opts.ipv6) THEN 1 ELSE 0)]_vars


\* C13: getSaveData on a live handle returns the saved state, having made
\* the two engine calls (size, then data) and thrown nothing.
C13_SaveDataProtocol ==
  (last.op = "getSaveData" /\ ~last.after) =>
    (last.err = NoError /\ last.engine)

\* C14: iterate(callback) returns without throwing, with a tox_iterate call
\* handed to the thread pool whose completion will invoke the callback.
C14_IterateIsAsync ==
  (last.op = "iterate" /\ ~last.after) =>
    (last.err = NoError /\ last.engine)


\* C15: a period of the running loop makes one tox_iterate call on the
\* loop's own handle and no other engine call, and changes neither the
\* handle nor the timer; the call's return changes nothing else either;
\* start and stop make no engine call.
C15_TickFrame ==
  [][/\ tick =>
          /\ \E c \in calls' \ calls :
                /\ calls' = calls \cup {c}
                /\ c.fn = "tox_iterate" /\ c.by = "driver"
          /\ getHandle' = getHandle
          /\ UNCHANGED <<interval, timers, toxKillCount, killIssued,
                         destroyed>>
     /\ tickReturn =>
          /\ calls' \subseteq calls
          /\ calls \ calls' \subseteq DriverCalls
          /\ getHandle' = getHandle
          /\ UNCHANGED <<interval, timers, toxKillCount, killIssued,
                         destroyed>>
     /\ ((\E w \in Waits : start(w)) \/ stop) =>
          UNCHANGED <<calls, toxKillCount, killIssued, destroyed, engine>>]_vars

\* A period of a live, started loop has made its one call, the only engine
\* call there is.
C15_Witness ==
  /\ isStarted /\ ~destroyed /\ getHandle = "tox"
  /\ calls = DriverCalls
  /\ \E c \in calls : calls = {c} /\ c.fn = "tox_iterate"


\* A wait start can use as it is: a number, not NaN, above zero.
Usable(wait) == isNumber(wait) /\ wait # NaN /\ wait.v > 0

\* C16: start on a stopped loop sets one timer, with the period 40 when the
\* wait is undefined, not a number, zero or negative, and with the given
\* wait when it is a positive number; every timer's period is above zero.
C16_DefaultOrGiven ==
  /\ [](\A t \in timers : t.wait > 0)
  /\ [][\A w \in Waits :
          (start(w) /\ ~isStarted) =>
            \E t \in timers' :
              /\ timers' = {t}
              /\ t.wait = (IF Usable(w) THEN w.v ELSE DefaultWait)]_vars

\* start has set a timer with the default period.
C16_Witness ==
  /\ last.op = "start" /\ ~last.noop
  /\ \E t \in timers : t.wait = DefaultWait


\* C17: once kill or killSync has been called the loop is not running:
\* isStarted() is false and no timer is left to call tox_iterate.
C17_NoLoopAfterKill == destroyed => (~isStarted /\ timers = {})


-----------------------------------------------------------------------------
(* The callback of bootstrap. *)

\* Requests of bootstrap whose completion handler has not run yet.
BootstrapCalls == {c \in calls : c.by = "bootstrap"}

\* The blocking call the JavaScript thread is in returns.
SyncReturn ==
  \/ tickReturn
  \/ \E r \in BOOLEAN, e \in Statuses : bootstrapSyncReturn(r, e)
  \/ iterationIntervalSyncReturn
  \/ iterateSyncReturn
  \/ killSyncReturn

\* The next step of a request of bootstrap can be taken, or the JavaScript
\* thread is in a blocking call that can return.
CanAdvance(c) ==
  CASE c.st = "queued" -> ENABLED poolStart
    [] c.st = "running" -> ENABLED poolEnd
    [] OTHER -> \/ ENABLED (\E e \in Statuses : bootstrapCallback(e))
                \/ (MainBusy /\ ENABLED SyncReturn)

=============================================================================
